---- MODULE Spec2Model ----
(***************************************************************************)
(* Model of the Timeline editing core (engine/cpp/core/timeline.cpp).      *)
(*                                                                         *)
(* Time values are doubles in the source.  Here they are integers counting *)
(* ticks of 2^-20 s, a unit in which every sum and difference the code     *)
(* computes is exact in a double.  The overlap tolerance 1e-6 s is         *)
(* 1.048576 ticks, so for whole ticks "x > 1e-6" is exactly "x > 1".       *)
(* Positions are 1-based (the source is 0-based).                          *)
(***************************************************************************)
EXTENDS Integers, Sequences, FiniteSets, TLC

VARIABLES timeline, last, calls, script

vars == <<calls, script, timeline, last>>

----------------------------------------------------------------------------
(* Bounds of the exploration *)

MaxCalls == 2
MaxStart == 2
MaxDuration == 2

(* Program constants *)

UndoCapacity == 32
Tolerance == 1

----------------------------------------------------------------------------
(* Small helpers *)

Max(a, b) == IF a >= b THEN a ELSE b

Min(a, b) == IF a <= b THEN a ELSE b

nullopt == << >>

RemoveAt(s, i) == SubSeq(s, 1, i - 1) \o SubSeq(s, i + 1, Len(s))

----------------------------------------------------------------------------
(* Value types: clip.h, timeline.h *)

TrackKinds == {"Video", "Audio", "Overlay", "Fx"}

ClipKinds == {"Video", "Audio", "Image"}

\* struct Clip, with the defaults of its member initialisers.
Clip(id, trackId, start, duration, effects) ==
    [id |-> id, mediaId |-> "media-0", trackId |-> trackId, kind |-> "Video",
     start |-> start, duration |-> duration, trimStart |-> 0, trimEnd |-> 0,
     opacity |-> 1, volume |-> 1, effects |-> effects, transitions |-> << >>]

\* struct Track.
Track(id, kind, allowOverlap, clips) ==
    [id |-> id, kind |-> kind, allowOverlap |-> allowOverlap,
     locked |-> FALSE, muted |-> FALSE, clips |-> clips]

\* struct Sequence, with the defaults of its member initialisers.
Sequence ==
    [id |-> "sequence-0", name |-> "Main", width |-> 1920, height |-> 1080,
     fps |-> 30, sampleRate |-> 48000, duration |-> 0, tracks |-> << >>]

endTime(clip) == clip.start + clip.duration

----------------------------------------------------------------------------
(* Private helpers of Timeline *)

clipOverlaps(a, b) ==
    LET startDiff == Max(a.start, b.start)
        endDiff == Min(endTime(a), endTime(b))
    IN endDiff - startDiff > Tolerance

\* ignoreIndex is nullopt or <<i>>.
validatePlacement(track, candidate, ignoreIndex) ==
    \/ track.allowOverlap
    \/ \A i \in 1..Len(track.clips) :
          \/ ignoreIndex = <<i>>
          \/ ~clipOverlaps(track.clips[i], candidate)

clearRedo(tl) == [tl EXCEPT !.redoStack_ = << >>]

\* pushUndo as it would be if the newest snapshot were dropped instead of the
\* oldest (pop_back for erase(begin())).
pushUndoDropsNewest(tl) ==
    LET pushed == Append(tl.undoStack_, tl.sequence_)
        kept == IF Len(pushed) > UndoCapacity
                THEN SubSeq(pushed, 1, UndoCapacity)
                ELSE pushed
    IN [tl EXCEPT !.undoStack_ = kept, !.redoStack_ = << >>]

pushUndo(tl) ==
    LET pushed == Append(tl.undoStack_, tl.sequence_)
        kept == IF Len(pushed) > UndoCapacity THEN Tail(pushed) ELSE pushed
    IN clearRedo([tl EXCEPT !.undoStack_ = kept])

\* The slots <<t, c>> of a track list, and the one the rebuild loop visits last.
Slots(tracks) ==
    UNION {{<<t, c>> : c \in 1..Len(tracks[t].clips)} : t \in 1..Len(tracks)}

LastSlot(S) ==
    CHOOSE s \in S : \A r \in S : r[1] < s[1] \/ (r[1] = s[1] /\ r[2] <= s[2])

\* A rebuild that refills the track map only.
rebuildTrackIndexOnly(tl) ==
    LET tracks == tl.sequence_.tracks
        trackIds == {tracks[t].id : t \in 1..Len(tracks)}
    IN [tl EXCEPT
          !.trackIndex_ = [id \in trackIds |->
              CHOOSE t \in 1..Len(tracks) :
                  /\ tracks[t].id = id
                  /\ \A u \in 1..Len(tracks) : tracks[u].id = id => u <= t]]

\* Both maps are cleared and refilled in track order, clip order: a later
\* entry with the same key overwrites an earlier one.
rebuildIndices(tl) ==
    LET tracks == tl.sequence_.tracks
        trackIds == {tracks[t].id : t \in 1..Len(tracks)}
        clipIds == {tracks[s[1]].clips[s[2]].id : s \in Slots(tracks)}
    IN [tl EXCEPT
          !.trackIndex_ = [id \in trackIds |->
              CHOOSE t \in 1..Len(tracks) :
                  /\ tracks[t].id = id
                  /\ \A u \in 1..Len(tracks) : tracks[u].id = id => u <= t],
          !.clipIndex_ = [id \in clipIds |->
              LastSlot({s \in Slots(tracks) : tracks[s[1]].clips[s[2]].id = id})]]

updateDuration(tl) ==
    LET tracks == tl.sequence_.tracks
        ends == {0} \cup {endTime(tracks[s[1]].clips[s[2]]) : s \in Slots(tracks)}
        maxDuration == CHOOSE m \in ends : \A e \in ends : e <= m
    IN [tl EXCEPT !.sequence_.duration = maxDuration]

\* std::sort with the comparator lhs.start < rhs.start.  std::sort is not
\* stable: the order of clips with equal start is unspecified, so every
\* ordering that is ascending by start is a possible result.
RECURSIVE sortByStart(_)
sortByStart(clips) ==
    IF clips = << >> THEN {<< >>}
    ELSE LET lowest == {i \in 1..Len(clips) :
                           \A j \in 1..Len(clips) : clips[i].start <= clips[j].start}
         IN UNION {{<<clips[i]>> \o rest : rest \in sortByStart(RemoveAt(clips, i))}
                   : i \in lowest}

\* The result of a call: the object afterwards and the value returned.
Outcome(tl, ret) == [tl |-> tl, ret |-> ret]

\* The common tail of upsertClip and splitClip: sort the track at position
\* tp, rebuildIndices, updateDuration, return true.
sortAndReturn(tl, tp) ==
    {Outcome(updateDuration(rebuildIndices(
         [tl EXCEPT !.sequence_.tracks[tp].clips = sorted])), TRUE)
     : sorted \in sortByStart(tl.sequence_.tracks[tp].clips)}

----------------------------------------------------------------------------
(* Public operations of Timeline.  Each yields the set of possible          *)
(* outcomes of one call on the object tl.                                   *)

\* Timeline::Timeline()
Timeline ==
    [sequence_ |-> Sequence, undoStack_ |-> << >>, redoStack_ |-> << >>,
     trackIndex_ |-> << >>, clipIndex_ |-> << >>]

setSequenceMetadata(tl, width, height, fps, sampleRate) ==
    {Outcome([tl EXCEPT !.sequence_.width = width, !.sequence_.height = height,
                        !.sequence_.fps = fps, !.sequence_.sampleRate = sampleRate],
             TRUE)}

\* addTrack as it would be without the test for a track of the same id.
addTrackUnchecked(tl, track) ==
    LET t1 == pushUndo(tl)
        t2 == [t1 EXCEPT !.sequence_.tracks = Append(@, track)]
    IN {Outcome(rebuildIndices(t2), TRUE)}

addTrack(tl, track) ==
    IF track.id \in DOMAIN tl.trackIndex_ THEN {Outcome(tl, FALSE)}
    ELSE LET t1 == pushUndo(tl)
             t2 == [t1 EXCEPT !.sequence_.tracks = Append(@, track)]
         IN {Outcome(rebuildIndices(t2), TRUE)}

updateTrack(tl, track) ==
    IF track.id \notin DOMAIN tl.trackIndex_ THEN {Outcome(tl, FALSE)}
    ELSE LET existing == tl.trackIndex_[track.id]
             t1 == pushUndo(tl)
             t2 == [t1 EXCEPT !.sequence_.tracks[existing] = track]
         IN {Outcome(rebuildIndices(t2), TRUE)}

removeTrack(tl, trackId) ==
    IF trackId \notin DOMAIN tl.trackIndex_ THEN {Outcome(tl, FALSE)}
    ELSE LET t1 == pushUndo(tl)
             t2 == [t1 EXCEPT !.sequence_.tracks =
                                  RemoveAt(@, tl.trackIndex_[trackId])]
         IN {Outcome(rebuildIndices(t2), TRUE)}

upsertClip(tl, clip) ==
    IF clip.trackId \notin DOMAIN tl.trackIndex_ THEN {Outcome(tl, FALSE)}
    ELSE LET tp == tl.trackIndex_[clip.trackId]
             track == tl.sequence_.tracks[tp]
         IN IF clip.id \notin DOMAIN tl.clipIndex_
            THEN IF ~validatePlacement(track, clip, nullopt)
                 THEN {Outcome(tl, FALSE)}
                 ELSE LET t1 == pushUndo(tl)
                          t2 == [t1 EXCEPT !.sequence_.tracks[tp].clips =
                                               Append(@, clip)]
                      IN sortAndReturn(t2, tp)
            ELSE LET pair == tl.clipIndex_[clip.id]
                 IN IF ~validatePlacement(track, clip, <<pair[2]>>)
                    THEN {Outcome(tl, FALSE)}
                    ELSE LET t1 == pushUndo(tl)
                             t2 == [t1 EXCEPT
                                      !.sequence_.tracks[pair[1]].clips[pair[2]] = clip]
                         IN sortAndReturn(t2, tp)

moveClip(tl, clipId, targetTrackId, newStart) ==
    IF clipId \notin DOMAIN tl.clipIndex_ \/ targetTrackId \notin DOMAIN tl.trackIndex_
    THEN {Outcome(tl, FALSE)}
    ELSE LET pair == tl.clipIndex_[clipId]
             clip == tl.sequence_.tracks[pair[1]].clips[pair[2]]
             targetTrack == tl.sequence_.tracks[tl.trackIndex_[targetTrackId]]
             candidate == [clip EXCEPT !.trackId = targetTrackId, !.start = newStart]
         IN IF ~validatePlacement(targetTrack, candidate, nullopt)
            THEN {Outcome(tl, FALSE)}
            ELSE LET t1 == pushUndo(tl)
                     t2 == [t1 EXCEPT
                              !.sequence_.tracks[pair[1]].clips[pair[2]] = candidate]
                 IN {Outcome(updateDuration(rebuildIndices(t2)), TRUE)}

\* trimClip as it would be if the snapshot were taken after the clip is
\* rewritten.
trimClipSnapshotAfter(tl, clipId, trimStart, trimEnd) ==
    IF clipId \notin DOMAIN tl.clipIndex_ THEN {Outcome(tl, FALSE)}
    ELSE LET pair == tl.clipIndex_[clipId]
             clip == tl.sequence_.tracks[pair[1]].clips[pair[2]]
             newDuration == Max(0, clip.duration - trimStart - trimEnd)
         IN IF newDuration <= 0 THEN {Outcome(tl, FALSE)}
            ELSE LET t1 == [tl EXCEPT !.sequence_.tracks[pair[1]].clips[pair[2]] =
                              [clip EXCEPT !.trimStart = @ + trimStart,
                                           !.trimEnd = @ + trimEnd,
                                           !.duration = newDuration]]
                 IN {Outcome(updateDuration(pushUndo(t1)), TRUE)}

\* A trim that also moves the clip to where its trimmed head ended.
trimClipMovesStart(tl, clipId, trimStart, trimEnd) ==
    IF clipId \notin DOMAIN tl.clipIndex_ THEN {Outcome(tl, FALSE)}
    ELSE LET pair == tl.clipIndex_[clipId]
             clip == tl.sequence_.tracks[pair[1]].clips[pair[2]]
             newDuration == Max(0, clip.duration - trimStart - trimEnd)
         IN IF newDuration <= 0 THEN {Outcome(tl, FALSE)}
            ELSE LET t1 == pushUndo(tl)
                     t2 == [t1 EXCEPT !.sequence_.tracks[pair[1]].clips[pair[2]] =
                              [clip EXCEPT !.start = @ + trimStart,
                                           !.trimStart = @ + trimStart,
                                           !.trimEnd = @ + trimEnd,
                                           !.duration = newDuration]]
                 IN {Outcome(updateDuration(t2), TRUE)}

trimClip(tl, clipId, trimStart, trimEnd) ==
    IF clipId \notin DOMAIN tl.clipIndex_ THEN {Outcome(tl, FALSE)}
    ELSE LET pair == tl.clipIndex_[clipId]
             clip == tl.sequence_.tracks[pair[1]].clips[pair[2]]
             newDuration == Max(0, clip.duration - trimStart - trimEnd)
         IN IF newDuration <= 0 THEN {Outcome(tl, FALSE)}
            ELSE LET t1 == pushUndo(tl)
                     t2 == [t1 EXCEPT !.sequence_.tracks[pair[1]].clips[pair[2]] =
                              [clip EXCEPT !.trimStart = @ + trimStart,
                                           !.trimEnd = @ + trimEnd,
                                           !.duration = newDuration]]
                 IN {Outcome(updateDuration(t2), TRUE)}

\* A split that leaves the first half's trimEnd as it was.
splitClipKeepsTrimEnd(tl, clipId, offsetSeconds) ==
    IF clipId \notin DOMAIN tl.clipIndex_ THEN {Outcome(tl, FALSE)}
    ELSE LET pair == tl.clipIndex_[clipId]
             clip == tl.sequence_.tracks[pair[1]].clips[pair[2]]
         IN IF offsetSeconds <= 0 \/ offsetSeconds >= clip.duration
            THEN {Outcome(tl, FALSE)}
            ELSE LET t1 == pushUndo(tl)
                     secondHalf == [clip EXCEPT !.id = clip.id \o "_b",
                                                !.start = @ + offsetSeconds,
                                                !.trimStart = @ + offsetSeconds,
                                                !.duration = @ - offsetSeconds]
                     firstHalf == [clip EXCEPT !.duration = offsetSeconds]
                     t2 == [t1 EXCEPT
                              !.sequence_.tracks[pair[1]].clips[pair[2]] = firstHalf]
                 IN IF clip.trackId \notin DOMAIN tl.trackIndex_
                    THEN {Outcome(t2, FALSE)}
                    ELSE LET tp == tl.trackIndex_[clip.trackId]
                             t3 == [t2 EXCEPT !.sequence_.tracks[tp].clips =
                                                  Append(@, secondHalf)]
                         IN sortAndReturn(t3, tp)

\* The snapshot is pushed and the first half rewritten before the track of
\* clip->trackId is looked up; when that lookup fails the call returns false
\* with both changes made (and no rebuild, no duration update).
splitClip(tl, clipId, offsetSeconds) ==
    IF clipId \notin DOMAIN tl.clipIndex_ THEN {Outcome(tl, FALSE)}
    ELSE LET pair == tl.clipIndex_[clipId]
             clip == tl.sequence_.tracks[pair[1]].clips[pair[2]]
         IN IF offsetSeconds <= 0 \/ offsetSeconds >= clip.duration
            THEN {Outcome(tl, FALSE)}
            ELSE LET t1 == pushUndo(tl)
                     secondHalf == [clip EXCEPT !.id = clip.id \o "_b",
                                                !.start = @ + offsetSeconds,
                                                !.trimStart = @ + offsetSeconds,
                                                !.duration = @ - offsetSeconds]
                     firstHalf == [clip EXCEPT !.duration = offsetSeconds,
                                               !.trimEnd = @ + secondHalf.duration]
                     t2 == [t1 EXCEPT
                              !.sequence_.tracks[pair[1]].clips[pair[2]] = firstHalf]
                 IN IF clip.trackId \notin DOMAIN tl.trackIndex_
                    THEN {Outcome(t2, FALSE)}
                    ELSE LET tp == tl.trackIndex_[clip.trackId]
                             t3 == [t2 EXCEPT !.sequence_.tracks[tp].clips =
                                                  Append(@, secondHalf)]
                         IN sortAndReturn(t3, tp)

\* The value read through clip->start inside the loop of rippleDelete.  clip
\* points at slot <<ti, ci>>, which the erase may have refilled with the next
\* clip of the track (the read then sees that clip, and sees the loop's own
\* writes to it) or left past the end of the list (the read is of a destroyed
\* object: any value, here stale).
clipStartRead(tracks, ti, ci, stale) ==
    IF ci <= Len(tracks[ti].clips) THEN tracks[ti].clips[ci].start ELSE stale

\* for (auto &otherClip : track->clips), from position i on.
RECURSIVE rippleShift(_, _, _, _, _, _, _)
rippleShift(tracks, tj, i, ti, ci, stale, removedDuration) ==
    IF i > Len(tracks[tj].clips) THEN tracks
    ELSE LET otherClip == tracks[tj].clips[i]
             shifted ==
                 IF otherClip.start >= clipStartRead(tracks, ti, ci, stale)
                 THEN [tracks EXCEPT ![tj].clips[i].start =
                                         Max(0, otherClip.start - removedDuration)]
                 ELSE tracks
         IN rippleShift(shifted, tj, i + 1, ti, ci, stale, removedDuration)

\* track->clips.erase(track->clips.begin() + index).  An index past the last
\* clip is undefined behaviour; the outcomes kept are the list unchanged and
\* the list without its last clip (what the erase of libstdc++ and libc++
\* does to a non-empty vector).
eraseAt(clips, index) ==
    IF index <= Len(clips) THEN {RemoveAt(clips, index)}
    ELSE {clips} \cup (IF clips = << >> THEN {} ELSE {SubSeq(clips, 1, Len(clips) - 1)})

\* The values a read of a destroyed clip's start may give.
StaleReads == 0..(MaxStart + MaxDuration + 1)

\* The clip is looked up through clipIndex_, the track through the clip's
\* trackId; the erase uses the clip's position in its own track as a position
\* in the track found.
rippleDelete(tl, clipId) ==
    IF clipId \notin DOMAIN tl.clipIndex_ THEN {Outcome(tl, FALSE)}
    ELSE LET pair == tl.clipIndex_[clipId]
             clip == tl.sequence_.tracks[pair[1]].clips[pair[2]]
         IN IF clip.trackId \notin DOMAIN tl.trackIndex_ THEN {Outcome(tl, FALSE)}
            ELSE LET tj == tl.trackIndex_[clip.trackId]
                     removedDuration == clip.duration
                     t1 == pushUndo(tl)
                     tracks == t1.sequence_.tracks
                     stales == IF tj = pair[1] /\ pair[2] = Len(tracks[tj].clips)
                               THEN StaleReads ELSE {clip.start}
                 IN {Outcome(updateDuration(rebuildIndices(
                        [t1 EXCEPT !.sequence_.tracks =
                            rippleShift([tracks EXCEPT ![tj].clips = erased],
                                        tj, 1, pair[1], pair[2], stale,
                                        removedDuration)])), TRUE)
                     : erased \in eraseAt(tracks[tj].clips, pair[2]),
                       stale \in stales}

\* The loops of frameAt and compose return at the first clip they reach that
\* holds the time: the least slot in track order, clip order.
FirstSlot(S) ==
    CHOOSE s \in S : \A r \in S : s[1] < r[1] \/ (s[1] = r[1] /\ s[2] <= r[2])

\* timeSeconds >= clip.start && timeSeconds <= clip.endTime()
holdsTime(clip, timeSeconds) ==
    timeSeconds >= clip.start /\ timeSeconds <= endTime(clip)

\* struct TimelineFrameInfo
TimelineFrameInfo(clipId, localTime, globalTime) ==
    [clipId |-> clipId, localTime |-> localTime, globalTime |-> globalTime]

\* frameAt as it would be if a clip did not hold its own end time.
frameAtEndExclusive(tl, timeSeconds) ==
    LET tracks == tl.sequence_.tracks
        reached == {s \in Slots(tracks) :
                       /\ tracks[s[1]].kind = "Video"
                       /\ timeSeconds >= tracks[s[1]].clips[s[2]].start
                       /\ timeSeconds < endTime(tracks[s[1]].clips[s[2]])}
    IN IF reached = {} THEN nullopt
       ELSE LET clip == tracks[FirstSlot(reached)[1]].clips[FirstSlot(reached)[2]]
            IN <<TimelineFrameInfo(clip.id, timeSeconds - clip.start, timeSeconds)>>

\* The result is nullopt or <<info>>.
frameAt(tl, timeSeconds) ==
    LET tracks == tl.sequence_.tracks
        reached == {s \in Slots(tracks) :
                       /\ tracks[s[1]].kind = "Video"
                       /\ holdsTime(tracks[s[1]].clips[s[2]], timeSeconds)}
    IN IF reached = {} THEN nullopt
       ELSE LET clip == tracks[FirstSlot(reached)[1]].clips[FirstSlot(reached)[2]]
            IN <<TimelineFrameInfo(clip.id, timeSeconds - clip.start, timeSeconds)>>

\* struct CompositorFrame
CompositorFrame(time, clipStack) == [time |-> time, clipStack |-> clipStack]

\* The tracks from position t on: an Audio track is skipped, any other track
\* pushes the id of its first clip that holds the time, if it has one.
RECURSIVE composeFrom(_, _, _)
composeFrom(tracks, t, timeSeconds) ==
    IF t > Len(tracks) THEN << >>
    ELSE LET track == tracks[t]
             reached == {<<t, c>> : c \in {c \in 1..Len(track.clips) :
                                              holdsTime(track.clips[c], timeSeconds)}}
             pushed == IF track.kind = "Audio" \/ reached = {} THEN << >>
                       ELSE <<track.clips[FirstSlot(reached)[2]].id>>
         IN pushed \o composeFrom(tracks, t + 1, timeSeconds)

\* compose as it would be if Audio tracks were not skipped.
composeWithAudio(sequence, timeSeconds) ==
    CompositorFrame(timeSeconds,
        composeFrom([t \in 1..Len(sequence.tracks) |->
                        [sequence.tracks[t] EXCEPT !.kind = "Video"]],
                    1, timeSeconds))

compose(sequence, timeSeconds) ==
    CompositorFrame(timeSeconds, composeFrom(sequence.tracks, 1, timeSeconds))

----------------------------------------------------------------------------
(* The calls a host makes: small sets of arguments *)

TrackIds == {"v1", "v2"}

ClipIds == {"a", "a_b"}

Starts == 0..MaxStart

Durations == 1..MaxDuration

\* struct Effect; every clip a host passes in carries one.
Effect == [id |-> "fx-0", type |-> "blur", params |-> << >>, enabled |-> TRUE]

ClipInputs ==
    {Clip(id, trackId, start, duration, <<Effect>>) :
        id \in ClipIds, trackId \in TrackIds, start \in Starts, duration \in Durations}

\* Tracks as a host passes them to addTrack and updateTrack: empty ones of
\* three shapes, and a non-overlap video track already carrying one clip that
\* names the track as its own.
TrackShapes == {<<"Video", FALSE>>, <<"Overlay", TRUE>>, <<"Audio", FALSE>>}

TrackInputs ==
    {Track(id, shape[1], shape[2], << >>) : id \in TrackIds, shape \in TrackShapes}
    \cup {Track(id, "Video", FALSE, <<Clip("a", id, 0, MaxDuration, <<Effect>>)>>) :
             id \in TrackIds}

\* The host keeps clip ids unique: a track it passes in carries no clip id
\* that a clip of another track of the sequence already has.
FreshClipIds(tl, track) ==
    \A s \in Slots(tl.sequence_.tracks) :
        LET owner == tl.sequence_.tracks[s[1]]
        IN owner.id # track.id =>
              \A c \in 1..Len(track.clips) : track.clips[c].id # owner.clips[s[2]].id

MetadataInputs == {<<1920, 1080, 30, 48000>>, <<1280, 720, 24, 44100>>}

TrimInputs == {<<dStart, dEnd>> : dStart \in {-1, 0, 1}, dEnd \in {0, 1}}

Offsets == 0..MaxDuration

Times == 0..(MaxDuration + 1)

----------------------------------------------------------------------------
(* State machine: one Timeline object, one call per step *)

\* One call: some outcome of it becomes the new object; last records the
\* call and the value it returned.  The host makes its opening calls (script)
\* first, then up to MaxCalls calls of any kind.
Call(op, args, outcomes) ==
    /\ script = << >>
    /\ calls < MaxCalls
    /\ \E o \in outcomes :
          /\ timeline' = o.tl
          /\ last' = [op |-> op, args |-> args, ret |-> o.ret]
    /\ calls' = calls + 1
    /\ UNCHANGED script

SetSequenceMetadata ==
    \E m \in MetadataInputs :
        Call("setSequenceMetadata",
             [width |-> m[1], height |-> m[2], fps |-> m[3], sampleRate |-> m[4]],
             setSequenceMetadata(timeline, m[1], m[2], m[3], m[4]))

AddTrack ==
    \E track \in TrackInputs :
        /\ FreshClipIds(timeline, track)
        /\ Call("addTrack", [track |-> track], addTrack(timeline, track))

UpdateTrack ==
    \E track \in TrackInputs :
        /\ FreshClipIds(timeline, track)
        /\ Call("updateTrack", [track |-> track], updateTrack(timeline, track))

RemoveTrack ==
    \E trackId \in TrackIds :
        Call("removeTrack", [trackId |-> trackId], removeTrack(timeline, trackId))

UpsertClip ==
    \E clip \in ClipInputs :
        Call("upsertClip", [clip |-> clip], upsertClip(timeline, clip))

MoveClip ==
    \E clipId \in ClipIds, targetTrackId \in TrackIds, newStart \in Starts :
        Call("moveClip",
             [clipId |-> clipId, targetTrackId |-> targetTrackId, newStart |-> newStart],
             moveClip(timeline, clipId, targetTrackId, newStart))

TrimClip ==
    \E clipId \in ClipIds, d \in TrimInputs :
        Call("trimClip", [clipId |-> clipId, trimStart |-> d[1], trimEnd |-> d[2]],
             trimClip(timeline, clipId, d[1], d[2]))

SplitClip ==
    \E clipId \in ClipIds, offsetSeconds \in Offsets :
        Call("splitClip", [clipId |-> clipId, offsetSeconds |-> offsetSeconds],
             splitClip(timeline, clipId, offsetSeconds))

RippleDelete ==
    \E clipId \in ClipIds :
        Call("rippleDelete", [clipId |-> clipId], rippleDelete(timeline, clipId))

FrameAt ==
    \E timeSeconds \in Times :
        Call("frameAt", [timeSeconds |-> timeSeconds],
             {Outcome(timeline, frameAt(timeline, timeSeconds))})

\* The host hands the Compositor the Sequence of the Timeline.
Compose ==
    \E timeSeconds \in Times :
        Call("compose", [timeSeconds |-> timeSeconds],
             {Outcome(timeline, compose(timeline.sequence_, timeSeconds))})

\* double duration() const { return sequence_.duration; }
Duration ==
    Call("duration", [none |-> TRUE], {Outcome(timeline, timeline.sequence_.duration)})

\* Sequence sequence() const { return sequence_; }
SequenceCopy ==
    Call("sequence", [none |-> TRUE], {Outcome(timeline, timeline.sequence_)})

\* An opening call [op, args] applied to tl.
Apply(tl, call) ==
    CASE call.op = "addTrack" -> addTrack(tl, call.args.track)
      [] call.op = "removeTrack" -> removeTrack(tl, call.args.trackId)
      [] call.op = "upsertClip" -> upsertClip(tl, call.args.clip)
      [] call.op = "moveClip" ->
            moveClip(tl, call.args.clipId, call.args.targetTrackId, call.args.newStart)

\* The next opening call of the host.
Replay ==
    /\ script # << >>
    /\ \E o \in Apply(timeline, Head(script)) :
          /\ timeline' = o.tl
          /\ last' = [op |-> Head(script).op, args |-> Head(script).args, ret |-> o.ret]
    /\ script' = Tail(script)
    /\ UNCHANGED calls

Next ==
    \/ Replay
    \/ SetSequenceMetadata
    \/ AddTrack
    \/ UpdateTrack
    \/ RemoveTrack
    \/ UpsertClip
    \/ MoveClip
    \/ TrimClip
    \/ SplitClip
    \/ RippleDelete
    \/ FrameAt
    \/ Compose
    \/ Duration
    \/ SequenceCopy

\* Opening calls: two non-overlap video tracks with both clips on the first
\* (Edited) or one clip on each (Spread).
AddTrackCall(id) ==
    [op |-> "addTrack", args |-> [track |-> Track(id, "Video", FALSE, << >>)]]

RemoveTrackCall(id) == [op |-> "removeTrack", args |-> [trackId |-> id]]

UpsertClipCall(id, trackId, start) ==
    [op |-> "upsertClip",
     args |-> [clip |-> Clip(id, trackId, start, MaxDuration, <<Effect>>)]]

MoveClipCall(clipId, targetTrackId, newStart) ==
    [op |-> "moveClip",
     args |-> [clipId |-> clipId, targetTrackId |-> targetTrackId, newStart |-> newStart]]

Edited ==
    <<AddTrackCall("v1"), UpsertClipCall("a", "v1", 0),
      UpsertClipCall("a_b", "v1", MaxDuration), AddTrackCall("v2")>>

Spread ==
    <<AddTrackCall("v1"), AddTrackCall("v2"),
      UpsertClipCall("a", "v1", 0), UpsertClipCall("a_b", "v2", 0)>>

AddKindCall(id, kind, allowOverlap) ==
    [op |-> "addTrack", args |-> [track |-> Track(id, kind, allowOverlap, << >>)]]

\* Opening calls: an overlay track that allows overlap above a video track
\* (Layered), an audio track above a video track whose clip starts later
\* (Scored); one clip on each.
Layered ==
    <<AddKindCall("v1", "Overlay", TRUE), AddTrackCall("v2"),
      UpsertClipCall("a", "v1", 0), UpsertClipCall("a_b", "v2", 0)>>

Scored ==
    <<AddKindCall("v1", "Audio", FALSE), AddTrackCall("v2"),
      UpsertClipCall("a", "v1", 0), UpsertClipCall("a_b", "v2", 1)>>

\* Opening calls: two clips with the same start on an overlay track that
\* allows overlap.
Stacked ==
    <<AddKindCall("v1", "Overlay", TRUE),
      UpsertClipCall("a", "v1", MaxStart), UpsertClipCall("a_b", "v1", MaxStart)>>

\* Track v1 added and removed in turn, until the undo buffer is one snapshot
\* short of full.
Toggled ==
    [i \in 1..(UndoCapacity - 1) |->
        IF i % 2 = 1 THEN AddTrackCall("v1") ELSE RemoveTrackCall("v1")]

NoCall == [op |-> "none", args |-> [none |-> TRUE], ret |-> TRUE]

\* A fresh Timeline and a host about to make the opening calls of opening.
Start(opening) ==
    /\ timeline = Timeline
    /\ last = NoCall
    /\ calls = 0
    /\ script = opening

Init == \E opening \in {<< >>, Edited, Spread} : Start(opening)

Spec == Init /\ [][Next]_vars

\* The host opens by moving clip a to the other track.
InitMoved ==
    \E opening \in {Edited, Spread} :
        Start(Append(opening, MoveClipCall("a", "v2", 0)))

SpecMoved == InitMoved /\ [][Next]_vars

\* The host opens with tracks of several kinds.
InitMixed == \E opening \in {Layered, Scored, Edited} : Start(opening)

SpecMixed == InitMixed /\ [][Next]_vars

\* The host has built the audio-and-video timeline and then makes any calls.
InitScored == Start(Scored)

SpecScored == InitScored /\ [][Next]_vars

\* The host opens with clips that start together.
InitStacked == Start(Stacked)

SpecStacked == InitStacked /\ [][Next]_vars

\* The host opens by filling the undo buffer.
InitUndo == Start(Toggled)

SpecUndo == InitUndo /\ [][Next]_vars

----------------------------------------------------------------------------
(* Vocabulary of the properties *)

Tracks == timeline.sequence_.tracks

ClipsOf(tracks) == {tracks[s[1]].clips[s[2]] : s \in Slots(tracks)}

IdsOf(tracks) == {c.id : c \in ClipsOf(tracks)}

SlotsWithId(tracks, id) == {s \in Slots(tracks) : tracks[s[1]].clips[s[2]].id = id}

Overlap(a, b) ==
    Min(a.start + a.duration, b.start + b.duration) - Max(a.start, b.start) > Tolerance

MaxEndTime(tracks) ==
    LET ends == {0} \cup {c.start + c.duration : c \in ClipsOf(tracks)}
    IN CHOOSE m \in ends : \A e \in ends : e <= m

Returned(op, ret) == last.op = op /\ last.ret = ret

\* A step in which the call op returned ret.
Returns(op, ret) ==
    /\ calls' # calls \/ script' # script
    /\ last'.op = op
    /\ last'.ret = ret

Mutating ==
    {"addTrack", "updateTrack", "removeTrack", "upsertClip", "moveClip",
     "trimClip", "splitClip", "rippleDelete"}

----------------------------------------------------------------------------
(* Properties *)

\* C1: in every track whose allowOverlap is false no two distinct clips
\* overlap by more than the tolerance.
C1_NoOverlap ==
    \A t \in 1..Len(Tracks) :
        ~Tracks[t].allowOverlap =>
            \A i, j \in 1..Len(Tracks[t].clips) :
                i # j => ~Overlap(Tracks[t].clips[i], Tracks[t].clips[j])

\* C2: a mutating call that returns false leaves the Sequence and the undo
\* buffer as they were before the call.
C2_FailureAtomic ==
    [][\A op \in Mutating :
          Returns(op, FALSE) =>
              /\ timeline'.sequence_ = timeline.sequence_
              /\ timeline'.undoStack_ = timeline.undoStack_]_vars

\* C3: sequence.duration is the greatest endTime over all clips of all
\* tracks, or 0 when there is no clip.
C3_DurationIsMaxEnd == timeline.sequence_.duration = MaxEndTime(Tracks)

\* C4: every track's clip list is ascending by start.
C4_SortedByStart ==
    \A t \in 1..Len(Tracks) :
        \A i \in 1..(Len(Tracks[t].clips) - 1) :
            Tracks[t].clips[i].start <= Tracks[t].clips[i + 1].start

\* C5: every clip stored in the clip list of a track names that track as its
\* trackId.
C5_TrackIdMatches ==
    \A t \in 1..Len(Tracks) :
        \A c \in 1..Len(Tracks[t].clips) : Tracks[t].clips[c].trackId = Tracks[t].id

\* C6: every clip id occurs at exactly one (track, position) slot.
C6_ClipIdsUnique ==
    \A id \in IdsOf(Tracks) : Cardinality(SlotsWithId(Tracks, id)) = 1

\* C7: the undo buffer never holds more than 32 snapshots; a step that finds
\* it full either leaves it alone or drops its oldest snapshot and keeps the
\* other 31 in order, and a successful mutating call does the latter, the
\* newest snapshot being the Sequence from before the call.
C7_UndoBounded ==
    /\ [](Len(timeline.undoStack_) <= UndoCapacity)
    /\ [][Len(timeline.undoStack_) = UndoCapacity =>
             LET Shifted ==
                     /\ Len(timeline'.undoStack_) = UndoCapacity
                     /\ \A i \in 1..(UndoCapacity - 1) :
                           timeline'.undoStack_[i] = timeline.undoStack_[i + 1]
                     /\ timeline'.undoStack_[UndoCapacity] = timeline.sequence_
             IN /\ timeline'.undoStack_ = timeline.undoStack_ \/ Shifted
                /\ (\E op \in Mutating : Returns(op, TRUE)) => Shifted]_vars

\* C7 witness: a successful call has pushed onto the full buffer.  The first
\* snapshot ever pushed is of a Sequence without tracks; it is gone.
C7_Evicted ==
    /\ Len(timeline.undoStack_) = UndoCapacity
    /\ last.op \in Mutating /\ last.ret
    /\ timeline.undoStack_[1].tracks # << >>

\* C8: after a successful moveClip(clipId, targetTrackId, newStart) the clip
\* is in the clip list of the target track with start = newStart, and its
\* duration, trimStart, trimEnd and effects are what they were.
C8_MoveLandsInTarget ==
    [][Returns("moveClip", TRUE) =>
          LET args == last'.args
              old == timeline.clipIndex_[args.clipId]
              new == timeline'.clipIndex_[args.clipId]
              before == timeline.sequence_.tracks[old[1]].clips[old[2]]
              after == timeline'.sequence_.tracks[new[1]].clips[new[2]]
          IN /\ timeline'.sequence_.tracks[new[1]].id = args.targetTrackId
             /\ after.start = args.newStart
             /\ after.duration = before.duration
             /\ after.trimStart = before.trimStart
             /\ after.trimEnd = before.trimEnd
             /\ after.effects = before.effects]_vars

\* C9: after a successful rippleDelete(clipId) no clip with that id remains,
\* and the other clip ids of the sequence are exactly those from before.
C9_RippleRemovesTheClip ==
    [][Returns("rippleDelete", TRUE) =>
          LET clipId == last'.args.clipId
          IN /\ clipId \notin IdsOf(timeline'.sequence_.tracks)
             /\ IdsOf(timeline'.sequence_.tracks) \ {clipId}
                  = IdsOf(timeline.sequence_.tracks) \ {clipId}]_vars

\* C10: a successful rippleDelete(clipId) changes no track other than the one
\* that held the clip, and the clips that survive in that track keep their
\* list order.
C10_RippleTouchesOneTrack ==
    [][Returns("rippleDelete", TRUE) =>
          LET pair == timeline.clipIndex_[last'.args.clipId]
              old == timeline.sequence_.tracks
              new == timeline'.sequence_.tracks
              ids(clips) == [i \in 1..Len(clips) |-> clips[i].id]
          IN /\ Len(new) = Len(old)
             /\ \A t \in 1..Len(old) : t # pair[1] => new[t] = old[t]
             /\ ids(new[pair[1]].clips) = ids(RemoveAt(old[pair[1]].clips, pair[2]))]_vars

\* No two distinct clips of the track overlap, or the track allows overlap.
NonOverlapping(track) ==
    track.allowOverlap \/
        \A i, j \in 1..Len(track.clips) :
            i # j => ~Overlap(track.clips[i], track.clips[j])

\* C11: a successful trimClip leaves the clip's duration no greater than it
\* was, and a track without overlapping clips before the call has none after.
C11_TrimOnlyShrinks ==
    [][Returns("trimClip", TRUE) =>
          LET pair == timeline.clipIndex_[last'.args.clipId]
              before == timeline.sequence_.tracks[pair[1]]
              after == timeline'.sequence_.tracks[pair[1]]
          IN /\ after.clips[pair[2]].duration <= before.clips[pair[2]].duration
             /\ NonOverlapping(before) => NonOverlapping(after)]_vars

\* C12: a successful splitClip(X, offset) leaves, on one track, a clip X and
\* a clip X_b whose durations add up to the original duration, the first
\* starting where the original did and ending where the second starts, the
\* second with trimStart = original trimStart + offset; and splitClip returns
\* false when the clip is absent or the offset is not inside (0, duration).
C12_SplitArithmetic ==
    [][/\ Returns("splitClip", TRUE) =>
             LET args == last'.args
                 pair == timeline.clipIndex_[args.clipId]
                 original == timeline.sequence_.tracks[pair[1]].clips[pair[2]]
                 new == timeline'.sequence_.tracks
             IN \E t \in 1..Len(new) : \E i, j \in 1..Len(new[t].clips) :
                   LET first == new[t].clips[i]
                       second == new[t].clips[j]
                   IN /\ first.id = args.clipId
                      /\ second.id = args.clipId \o "_b"
                      /\ first.duration + second.duration = original.duration
                      /\ first.start + first.duration = second.start
                      /\ first.start = original.start
                      /\ second.trimStart = original.trimStart + args.offsetSeconds
       /\ \A ret \in BOOLEAN :
             Returns("splitClip", ret) =>
                 LET args == last'.args
                     absent == args.clipId \notin IdsOf(timeline.sequence_.tracks)
                     outside ==
                         \A c \in ClipsOf(timeline.sequence_.tracks) :
                             c.id = args.clipId =>
                                 \/ args.offsetSeconds <= 0
                                 \/ args.offsetSeconds >= c.duration
                 IN absent \/ outside => ~ret]_vars

\* C13: moveClip(clipId, T, s), with T the track that holds the clip and s the
\* clip's start, leaves the Sequence as it was, whatever it returns.
C13_MoveInPlaceIsNoOp ==
    [][\A ret \in BOOLEAN :
          Returns("moveClip", ret) =>
              LET args == last'.args
              IN args.clipId \in DOMAIN timeline.clipIndex_ =>
                    LET pair == timeline.clipIndex_[args.clipId]
                        track == timeline.sequence_.tracks[pair[1]]
                    IN track.id = args.targetTrackId
                           /\ track.clips[pair[2]].start = args.newStart
                       => timeline'.sequence_ = timeline.sequence_]_vars

\* A step in which the query op was answered.
Answers(op) == calls' # calls /\ last'.op = op

\* The clip holds the time t, both ends included.
Contains(clip, t) == clip.start <= t /\ t <= clip.start + clip.duration

\* The position of the first clip of the list that holds t (0: none does).
FirstContaining(clips, t) ==
    IF \E c \in 1..Len(clips) : Contains(clips[c], t)
    THEN CHOOSE c \in 1..Len(clips) :
             /\ Contains(clips[c], t)
             /\ \A d \in 1..(c - 1) : ~Contains(clips[d], t)
    ELSE 0

\* C14: frameAt(t) answers (C.id, t - C.start, t) for the first clip C, in
\* list order, of the first Video track that has a clip holding t; it answers
\* none exactly when no Video track has one; the tracks of other kinds do not
\* matter, and the Sequence and the undo buffer stay as they were.
C14_FrameAtFirstVideoClip ==
    [][Answers("frameAt") =>
          LET t == last'.args.timeSeconds
              tracks == timeline.sequence_.tracks
              video == {p \in 1..Len(tracks) :
                           /\ tracks[p].kind = "Video"
                           /\ FirstContaining(tracks[p].clips, t) # 0}
              videoOnly == [timeline EXCEPT !.sequence_.tracks =
                            SelectSeq(tracks, LAMBDA track : track.kind = "Video")]
          IN /\ last'.ret = << >> <=> video = {}
             /\ video # {} =>
                   LET p == CHOOSE q \in video : \A r \in video : q <= r
                       C == tracks[p].clips[FirstContaining(tracks[p].clips, t)]
                   IN last'.ret =
                          <<[clipId |-> C.id, localTime |-> t - C.start, globalTime |-> t]>>
             /\ last'.ret = frameAt(videoOnly, t)
             /\ timeline'.sequence_ = timeline.sequence_
             /\ timeline'.undoStack_ = timeline.undoStack_]_vars

\* C14 witness: frameAt answered with a clip at the very end of that clip,
\* while an earlier track that is not a Video track has a clip holding the
\* time.
C14_AudioPassedOver ==
    /\ last.op = "frameAt" /\ last.ret # << >>
    /\ \E p \in 1..Len(Tracks) : \E c \in 1..Len(Tracks[p].clips) :
          /\ Tracks[p].clips[c].id = last.ret[1].clipId
          /\ Tracks[p].clips[c].duration = last.ret[1].localTime
          /\ \E q \in 1..(p - 1) :
                /\ Tracks[q].kind # "Video"
                /\ FirstContaining(Tracks[q].clips, last.args.timeSeconds) # 0

\* C15: the clipStack of compose(sequence, t) lists, in track order, the id
\* of the first clip holding t of each track that is not an Audio track and
\* has such a clip, and nothing else; it is no longer than the number of
\* tracks that are not Audio tracks.
C15_ComposeStack ==
    [][Answers("compose") =>
          LET t == last'.args.timeSeconds
              tracks == timeline.sequence_.tracks
              stack == last'.ret.clipStack
              visible == {p \in 1..Len(tracks) :
                             /\ tracks[p].kind # "Audio"
                             /\ FirstContaining(tracks[p].clips, t) # 0}
          IN /\ Len(stack) = Cardinality(visible)
             /\ \A p \in visible :
                   stack[Cardinality({q \in visible : q <= p})]
                       = tracks[p].clips[FirstContaining(tracks[p].clips, t)].id
             /\ Len(stack)
                   <= Cardinality({p \in 1..Len(tracks) : tracks[p].kind # "Audio"})]_vars

\* C15 witness: compose answered with the clip of the second track only, the
\* first track being an Audio track with a clip holding the time.
C15_AudioLeftOut ==
    /\ last.op = "compose"
    /\ Len(Tracks) = 2 /\ Tracks[1].kind = "Audio"
    /\ FirstContaining(Tracks[1].clips, last.args.timeSeconds) # 0
    /\ Len(last.ret.clipStack) = 1
    /\ last.ret.clipStack[1] \in {c.id : c \in ClipsOf(<<Tracks[2]>>)}

\* The positions of the tracks with this id.
PositionsOf(tracks, id) == {p \in 1..Len(tracks) : tracks[p].id = id}

\* C16: no two tracks of the sequence have the same id; addTrack(T) returns
\* false and changes nothing when a track with T.id exists and otherwise
\* appends T as the last track; a successful updateTrack(T) puts T at the
\* position of the track it replaces and leaves the other tracks alone; a
\* successful removeTrack(id) removes the track with that id and keeps the
\* others in order.
C16_TrackIdsUnique ==
    /\ [](\A p, q \in 1..Len(Tracks) : Tracks[p].id = Tracks[q].id => p = q)
    /\ [][LET old == timeline.sequence_.tracks
              new == timeline'.sequence_.tracks
          IN /\ \A ret \in BOOLEAN :
                   Returns("addTrack", ret) =>
                       IF PositionsOf(old, last'.args.track.id) # {}
                       THEN ~ret /\ timeline' = timeline
                       ELSE ret /\ new = Append(old, last'.args.track)
             /\ Returns("updateTrack", TRUE) =>
                   \E p \in PositionsOf(old, last'.args.track.id) :
                       new = [old EXCEPT ![p] = last'.args.track]
             /\ Returns("removeTrack", TRUE) =>
                   \E p \in PositionsOf(old, last'.args.trackId) :
                       /\ new = RemoveAt(old, p)
                       /\ PositionsOf(new, last'.args.trackId) = {}]_vars

\* C16 witness: addTrack has been refused in a sequence of two tracks.
C16_AddRefused ==
    /\ Returned("addTrack", FALSE)
    /\ Len(Tracks) = 2
    /\ PositionsOf(Tracks, last.args.track.id) # {}

\* C17: a successful rippleDelete(clipId) of clip R leaves the other clips of
\* R's track in their places; each of them that started at or after R.start
\* now starts R.duration earlier, floored at 0, and each that started
\* before R.start starts where it did.
C17_RippleShift ==
    [][Returns("rippleDelete", TRUE) =>
          LET pair == timeline.clipIndex_[last'.args.clipId]
              R == timeline.sequence_.tracks[pair[1]].clips[pair[2]]
              remaining == RemoveAt(timeline.sequence_.tracks[pair[1]].clips, pair[2])
              after == timeline'.sequence_.tracks[pair[1]].clips
          IN /\ Len(after) = Len(remaining)
             /\ \A k \in 1..Len(remaining) :
                   /\ after[k].id = remaining[k].id
                   /\ after[k].start =
                          IF remaining[k].start >= R.start
                          THEN Max(0, remaining[k].start - R.duration)
                          ELSE remaining[k].start]_vars

\* C18: upsertClip(C) for an id that exists returns false whenever C overlaps
\* a clip of a non-overlap target track, the one slot left out being the
\* existing clip's own, and only when that clip is in the target track.
C18_UpsertConflict ==
    [][\A ret \in BOOLEAN :
          Returns("upsertClip", ret) =>
              LET C == last'.args.clip
                  tracks == timeline.sequence_.tracks
              IN \A p \in PositionsOf(tracks, C.trackId) :
                    C.id \in DOMAIN timeline.clipIndex_ =>
                        LET pair == timeline.clipIndex_[C.id]
                            own == IF pair[1] = p THEN {pair[2]} ELSE {}
                            conflict ==
                                /\ ~tracks[p].allowOverlap
                                /\ \E i \in (1..Len(tracks[p].clips)) \ own :
                                      Overlap(tracks[p].clips[i], C)
                        IN conflict => ~ret]_vars

\* The calls that push no snapshot.
Quiet == {"setSequenceMetadata", "frameAt", "duration", "sequence"}

\* C19: a structural call that returns true pushes one snapshot, the Sequence
\* as it was before the call: the undo buffer is the old one with that
\* snapshot appended, less its oldest entry if it was full, and the redo
\* buffer is empty; setSequenceMetadata, frameAt, duration and sequence leave
\* the undo buffer alone.
C19_OneSnapshotPerSuccess ==
    [][LET old == timeline.undoStack_
           pushed == Append(old, timeline.sequence_)
       IN /\ \A op \in Mutating :
                Returns(op, TRUE) =>
                    /\ timeline'.undoStack_ =
                           IF Len(old) < UndoCapacity THEN pushed ELSE Tail(pushed)
                    /\ timeline'.redoStack_ = << >>
          /\ \A op \in Quiet :
                Answers(op) => timeline'.undoStack_ = old]_vars

\* C19 witness: a successful trimClip has pushed onto a full undo buffer a
\* Sequence that is not the present one.
C19_TrimPushed ==
    /\ Returned("trimClip", TRUE)
    /\ Len(timeline.undoStack_) = UndoCapacity
    /\ timeline.undoStack_[UndoCapacity] # timeline.sequence_
    /\ timeline.undoStack_[UndoCapacity].tracks # << >>

\* C20: trimClip(clipId, dStart, dEnd) returns false exactly when no clip has
\* that id or the clip's duration - dStart - dEnd is not positive; when it
\* returns true the clip has trimStart and trimEnd raised by dStart and dEnd,
\* duration lowered by both, the same start, and nothing else of the
\* Sequence differs but its duration.
C20_TrimExact ==
    [][\A ret \in BOOLEAN :
          Returns("trimClip", ret) =>
              LET clipId == last'.args.clipId
                  dStart == last'.args.trimStart
                  dEnd == last'.args.trimEnd
                  absent == clipId \notin IdsOf(Tracks)
              IN IF absent THEN ~ret
                 ELSE LET pair == timeline.clipIndex_[clipId]
                          clip == Tracks[pair[1]].clips[pair[2]]
                          left == clip.duration - dStart - dEnd
                          trimmed == [clip EXCEPT !.trimStart = clip.trimStart + dStart,
                                                  !.trimEnd = clip.trimEnd + dEnd,
                                                  !.duration = left]
                      IN /\ ret <=> left > 0
                         /\ ret => timeline'.sequence_ =
                                       [timeline.sequence_ EXCEPT
                                            !.tracks[pair[1]].clips[pair[2]] = trimmed,
                                            !.duration = timeline'.sequence_.duration]]_vars

\* C20 witness: trimClip(clipId, 1, 0) has returned true and the clip, still
\* where it started, carries the second as trimStart.
C20_HeadTrimmed ==
    /\ Returned("trimClip", TRUE)
    /\ last.args.trimStart = 1
    /\ \E s \in SlotsWithId(Tracks, last.args.clipId) :
          /\ Tracks[s[1]].clips[s[2]].trimStart = 1
          /\ Tracks[s[1]].clips[s[2]].start > 0
          /\ Tracks[s[1]].clips[s[2]].duration = MaxDuration - 1

\* The positions of a track list that hold a track with the id.
TrackPositions(tracks, id) == {t \in 1..Len(tracks) : tracks[t].id = id}

\* C21: after every call returns, trackIndex_ has exactly the track ids as
\* keys and maps each to a position holding a track of that id, and
\* clipIndex_ has exactly the clip ids as keys and maps each to a slot
\* holding a clip of that id.
C21_IndicesAgree ==
    /\ DOMAIN timeline.trackIndex_ = {Tracks[t].id : t \in 1..Len(Tracks)}
    /\ \A id \in DOMAIN timeline.trackIndex_ :
          timeline.trackIndex_[id] \in TrackPositions(Tracks, id)
    /\ DOMAIN timeline.clipIndex_ = IdsOf(Tracks)
    /\ \A id \in DOMAIN timeline.clipIndex_ :
          timeline.clipIndex_[id] \in SlotsWithId(Tracks, id)

\* C21 witness: removeTrack has taken out the first of two tracks, and the
\* track and the clip that moved up are indexed at their new positions.
C21_Reindexed ==
    /\ Returned("removeTrack", TRUE)
    /\ Len(timeline.undoStack_[Len(timeline.undoStack_)].tracks) = 2
    /\ Len(Tracks) = 1
    /\ Tracks[1].id = "v2"
    /\ Tracks[1].clips # << >>
    /\ timeline.trackIndex_["v2"] = 1
    /\ timeline.clipIndex_[Tracks[1].clips[1].id][1] = 1

\* The stretch of source media a clip stands for.
Extent(clip) == clip.trimStart + clip.duration + clip.trimEnd

\* The ids and extents of a track's clips, in list order.
ExtentsOf(track) ==
    [c \in 1..Len(track.clips) |-> <<track.clips[c].id, Extent(track.clips[c])>>]

\* C22: trimStart + duration + trimEnd of every clip is the same after a
\* successful trimClip or moveClip as before it; after a successful
\* rippleDelete every clip left has the value it had; after a successful
\* splitClip(X, offset) the half named X and the half named X_b both have
\* the value the original clip had.
C22_ExtentConserved ==
    [][LET old == timeline.sequence_.tracks
           new == timeline'.sequence_.tracks
       IN /\ \A op \in {"trimClip", "moveClip"} :
                Returns(op, TRUE) =>
                    /\ Len(new) = Len(old)
                    /\ \A t \in 1..Len(old) : ExtentsOf(new[t]) = ExtentsOf(old[t])
          /\ Returns("rippleDelete", TRUE) =>
                /\ Len(new) = Len(old)
                /\ \A t \in 1..Len(old) :
                      \/ ExtentsOf(new[t]) = ExtentsOf(old[t])
                      \/ \E k \in 1..Len(old[t].clips) :
                            ExtentsOf(new[t]) = RemoveAt(ExtentsOf(old[t]), k)
          /\ Returns("splitClip", TRUE) =>
                LET args == last'.args
                    pair == timeline.clipIndex_[args.clipId]
                    original == old[pair[1]].clips[pair[2]]
                IN \E s1, s2 \in Slots(new) :
                      LET first == new[s1[1]].clips[s1[2]]
                          second == new[s2[1]].clips[s2[2]]
                      IN /\ s1 # s2
                         /\ first.id = args.clipId
                         /\ first.duration = args.offsetSeconds
                         /\ second.id = args.clipId \o "_b"
                         /\ second.duration = original.duration - args.offsetSeconds
                         /\ Extent(first) = Extent(original)
                         /\ Extent(second) = Extent(original)]_vars

\* C22 witness: a clip with a trimStart other than 0 has been split; the
\* first half's trimEnd covers the second half, the second half's trimStart
\* covers the first, and both have the extent of the clip as it was made.
C22_TrimmedThenSplit ==
    /\ Returned("splitClip", TRUE)
    /\ \E s1, s2 \in Slots(Tracks) :
          LET first == Tracks[s1[1]].clips[s1[2]]
              second == Tracks[s2[1]].clips[s2[2]]
          IN /\ first.id = last.args.clipId
             /\ second.id = last.args.clipId \o "_b"
             /\ first.trimStart # 0
             /\ first.trimEnd = second.duration
             /\ second.trimStart = first.trimStart + first.duration
             /\ Extent(first) = MaxDuration
             /\ Extent(second) = MaxDuration

====
